---- MODULE Spec2Model ----
(***************************************************************************)
(* Per-label decision-threshold tuning and label assignment of the three   *)
(* model scripts of LEDGAR_provision_classification, and the command-line  *)
(* driver main() of the transformer script.                                *)
(*                                                                         *)
(* Numbers.  Scores and the baseline's thresholds are counted in tenths    *)
(* (3 is 0.3).  The thresholds of the two tune_threshs functions are       *)
(* points of numpy.linspace(lo, hi, num), lo + k*(hi-lo)/(num-1); they are *)
(* counted in "fine" units of 1/(num-1) tenth, so that every grid point is *)
(* an integer: point k is lo*(num-1) + k*(hi-lo).  Arithmetic is exact.    *)
(* An F1 value is a fraction <<n, d>> with d > 0, compared by cross        *)
(* multiplication.                                                         *)
(***************************************************************************)
EXTENDS Integers, Sequences, FiniteSets, TLC

VARIABLES
    classes_,      \* mlb.classes_: the fitted label vocabulary, sorted
    probas,        \* score matrix: y_pred_vecs / prediction_data['pred']
    truth,         \* multi-hot truth matrix: prediction_data['truth']
    pc,            \* position of the script under consideration
    lr_threshs,    \* baseline: label_threshs returned by tune_clf_thresholds
    lr_pred,       \* baseline: y_pred returned by tune_clf_thresholds
    db_threshs,    \* transformer: threshs of main()
    db_pred,       \* transformer: multihot_to_label_lists(predicted_mat, ...)
    mlp_threshs,   \* attention network: result of tune_threshs
    call,          \* arguments of the stringify_labels / decoding call
    out,           \* result of that call
    argv,          \* command line of the transformer script
    args,          \* argparse namespace
    train_params,  \* main(): train_params
    train_used,    \* what train() read from its arguments
    eval_split,    \* split behind eval_data
    predicted,     \* split evaluate() was run on
    tuned,         \* split tune_threshs/apply_threshs were run on
    scored,        \* split evaluate_multilabels was run on
    exception      \* exception that ended main()

vars == <<classes_, probas, truth, pc, lr_threshs, lr_pred, db_threshs, db_pred,
          mlp_threshs, call, out, argv, args, train_params, train_used,
          eval_split, predicted, tuned, scored, exception>>

tuneVars == <<lr_threshs, lr_pred, db_threshs, db_pred, mlp_threshs>>
callVars == <<call, out>>
mainVars == <<argv, args, train_params, train_used, eval_split, predicted,
              tuned, scored, exception>>

(* ---------------------------- bounds ----------------------------------- *)
NumRows == 3          \* samples of the split the thresholds are tuned on
NumCallRows == 2      \* samples in a single label-assignment call
MaxLevel == 2         \* scores are 0.0, 0.3, ..., 0.3 * MaxLevel
MaxGiven == 2         \* numeric options passed on one command line

None == "None"
Omitted == "omitted"

Scores == {3 * k : k \in 0..MaxLevel}

\* column j of a score or truth matrix belongs to label classes_[j]
Cols == 1..Len(classes_)
Labels == {classes_[j] : j \in Cols}

(* ------------------------- F1 as a fraction ---------------------------- *)
\* sklearn.metrics.f1_score for one binary column: 2tp / (2tp + fp + fn),
\* and 0 when there is neither a positive truth nor a positive prediction.
F1Of(tp, fp, fn) ==
    IF 2 * tp + fp + fn = 0 THEN <<0, 1>> ELSE <<2 * tp, 2 * tp + fp + fn>>

FGt(a, b) == a[1] * b[2] > b[1] * a[2]
FGe(a, b) == a[1] * b[2] >= b[1] * a[2]
FZero == <<0, 1>>

f1_score(y_true, y_pred) ==
    LET tp == Cardinality({r \in DOMAIN y_true : y_true[r] = 1 /\ y_pred[r]})
        fp == Cardinality({r \in DOMAIN y_true : y_true[r] = 0 /\ y_pred[r]})
        fn == Cardinality({r \in DOMAIN y_true : y_true[r] = 1 /\ ~y_pred[r]})
    IN F1Of(tp, fp, fn)

\* evaluate_multilabels(y, y_preds)[label]['f1'] of classification utils:
\* the label's F1 over the samples, from label collections.
evaluate_multilabels(y, y_preds) ==
    [l \in Labels |->
        LET tp == Cardinality({r \in DOMAIN y : l \in y[r] /\ l \in y_preds[r]})
            fp == Cardinality({r \in DOMAIN y : l \notin y[r] /\ l \in y_preds[r]})
            fn == Cardinality({r \in DOMAIN y : l \in y[r] /\ l \notin y_preds[r]})
        IN F1Of(tp, fp, fn)]

(* --------------- logistic-regression baseline -------------------------- *)
DefaultThresh == 5

\* A label_threshs argument is <<"None", << >>>> or <<"dict", d>> with d a
\* function from labels to thresholds.  `if not label_threshs`: None and the
\* empty dict are both falsy.
NoneArg == <<"None", << >>>>
DictArg(d) == <<"dict", d>>
Falsy(label_threshs) == label_threshs[1] = "None" \/ DOMAIN label_threshs[2] = {}

\* stringify_labels with a strict comparison
stringify_labels_strict(y_vecs, thresh, label_threshs) ==
    LET byLabel == IF Falsy(label_threshs)
                   THEN [l \in Labels |-> thresh]
                   ELSE label_threshs[2]
        threshList == [j \in Cols |-> byLabel[classes_[j]]]
    IN [r \in DOMAIN y_vecs |->
          {classes_[j] : j \in {c \in Cols : y_vecs[r][c] > threshList[c]}}]

\* stringify_labels(y_vecs, mlb, thresh, label_threshs); a row without a
\* triggered class gets Python's empty list, a row with one a set: both are
\* label collections and are sets here.
stringify_labels(y_vecs, thresh, label_threshs) ==
    LET byLabel == IF Falsy(label_threshs)
                   THEN [l \in Labels |-> thresh]
                   ELSE label_threshs[2]
        threshList == [j \in Cols |-> byLabel[classes_[j]]]
    IN [r \in DOMAIN y_vecs |->
          LET label_indexes == {j \in Cols : y_vecs[r][j] >= threshList[j]}
          IN IF label_indexes # {}
             THEN {classes_[j] : j \in label_indexes}
             ELSE {}]

\* thresh_range = [t / 10.0 for t in range(1, 10)]
thresh_range == [t \in 1..9 |-> t]

\* BestThresh with the comparison of the loop turned around
RECURSIVE BestThreshFlipped(_, _, _, _)
BestThreshFlipped(f1At, n, best_thresh, best_f1) ==
    IF n > Len(thresh_range) THEN best_thresh
    ELSE LET curr_thresh == thresh_range[n]
             curr_f1 == f1At[curr_thresh]
         IN IF FGt(best_f1, curr_f1)
            THEN BestThreshFlipped(f1At, n + 1, curr_thresh, curr_f1)
            ELSE BestThreshFlipped(f1At, n + 1, best_thresh, best_f1)

\* the inner loop of tune_clf_thresholds over thresh_range for one label,
\* started with best_thresh, best_f1 = 0.1, 0.0
RECURSIVE BestThresh(_, _, _, _)
BestThresh(f1At, n, best_thresh, best_f1) ==
    IF n > Len(thresh_range) THEN best_thresh
    ELSE LET curr_thresh == thresh_range[n]
             curr_f1 == f1At[curr_thresh]
         IN IF FGt(curr_f1, best_f1)
            THEN BestThresh(f1At, n + 1, curr_thresh, curr_f1)
            ELSE BestThresh(f1At, n + 1, best_thresh, best_f1)

\* dataset.y_test: the truth as label lists
LabelLists(mat) == [r \in DOMAIN mat |-> {classes_[j] : j \in {c \in Cols : mat[r][c] = 1}}]

\* all_results of tune_clf_thresholds: thresh -> label -> F1
all_results(y_pred_vecs, test_y) ==
    [t \in {thresh_range[n] : n \in DOMAIN thresh_range} |->
        evaluate_multilabels(test_y, stringify_labels(y_pred_vecs, t, NoneArg))]

tune_clf_thresholds(y_pred_vecs, test_y) ==
    LET res == all_results(y_pred_vecs, test_y)
        label_threshs == [l \in Labels |->
            BestThresh([t \in DOMAIN res |-> res[t][l]], 1, 1, FZero)]
    IN [y_pred |-> stringify_labels(y_pred_vecs, DefaultThresh, DictArg(label_threshs)),
        label_threshs |-> label_threshs]

(* ------------------------ transformer script --------------------------- *)
num == 100

Fine(s) == s * (num - 1)

Min(S) == CHOOSE x \in S : \A y \in S : x <= y
Max(S) == CHOOSE x \in S : \A y \in S : x >= y

Column(mat, i) == [r \in DOMAIN mat |-> mat[r][i]]

\* numpy.linspace(lo, hi, num=100) as a sequence of fine-unit thresholds
linspace(lo, hi) == [k \in 1..num |-> Fine(lo) + (k - 1) * (hi - lo)]

\* the key of max(): f1_score(y_true=truth[:, i], y_pred=(probas[:, i] > t))
ThreshF1(scores, y_true, t) ==
    f1_score(y_true, [r \in DOMAIN scores |-> Fine(scores[r]) > t])

\* FirstMax preferring the smaller key
RECURSIVE FirstMin(_, _, _)
FirstMin(key, lo, hi) ==
    IF lo = hi THEN <<lo, key[lo]>>
    ELSE LET mid == (lo + hi) \div 2
             left == FirstMin(key, lo, mid)
             right == FirstMin(key, mid + 1, hi)
         IN IF FGt(left[2], right[2]) THEN right ELSE left

\* Python's max(iterable, key=...) returns the first item whose key is
\* greatest.  FirstMax gives <<index, key>> of that item among seq[lo..hi]:
\* the first maximum of the left half unless the right half has a strictly
\* greater key.
RECURSIVE FirstMax(_, _, _)
FirstMax(key, lo, hi) ==
    IF lo = hi THEN <<lo, key[lo]>>
    ELSE LET mid == (lo + hi) \div 2
             left == FirstMax(key, lo, mid)
             right == FirstMax(key, mid + 1, hi)
         IN IF FGt(right[2], left[2]) THEN right ELSE left

PyMax(seq, key) == seq[FirstMax(key, 1, Len(seq))[1]]

Grid(mat, i) ==
    LET col == Column(mat, i)
    IN linspace(Min({col[r] : r \in DOMAIN col}), Max({col[r] : r \in DOMAIN col}))

TunedColumn(p, t, i) ==
    LET grid == Grid(p, i)
        key == [k \in DOMAIN grid |-> ThreshF1(Column(p, i), Column(t, i), grid[k])]
    IN PyMax(grid, key)

\* distilbert_baseline.tune_threshs
tune_threshs(p, t) == [i \in Cols |-> TunedColumn(p, t, i)]

\* apply_threshs with an inclusive comparison
apply_threshs_inclusive(p, threshs) ==
    [r \in DOMAIN p |-> [i \in Cols |-> IF Fine(p[r][i]) >= threshs[i] THEN 1 ELSE 0]]

\* distilbert_baseline.apply_threshs
apply_threshs(p, threshs) ==
    [r \in DOMAIN p |-> [i \in Cols |-> IF Fine(p[r][i]) > threshs[i] THEN 1 ELSE 0]]

\* the inner loop of multihot_to_label_lists over the columns of one row
RECURSIVE RowLabels(_, _, _, _)
RowLabels(row, label_id_to_label, j, lbl_set) ==
    IF j > Len(classes_) THEN lbl_set
    ELSE IF row[j] > 0
         THEN RowLabels(row, label_id_to_label, j + 1, Append(lbl_set, label_id_to_label[j]))
         ELSE RowLabels(row, label_id_to_label, j + 1, lbl_set)

\* distilbert_baseline.multihot_to_label_lists
multihot_to_label_lists(label_array, label_map) ==
    LET label_id_to_label ==
            [v \in {label_map[k] : k \in DOMAIN label_map} |->
                CHOOSE k \in DOMAIN label_map : label_map[k] = v]
    IN [r \in DOMAIN label_array |->
            RowLabels(label_array[r], label_id_to_label, 1, << >>)]

\* DonData.label_map of the transformer script: label -> column
LabelMaps == {m \in [Labels -> Cols] : \A k, l \in Labels : k # l => m[k] # m[l]}
label_map0 == [l \in Labels |-> CHOOSE j \in Cols : classes_[j] = l]

(* --------------------- attention-network script ------------------------ *)
DefaultMlpThresh == 5

TunedColumnMlp(p, t, i) ==
    LET grid == Grid(p, i)
        key == [k \in DOMAIN grid |-> ThreshF1(Column(p, i), Column(t, i), grid[k])]
    IN PyMax(grid, key)

\* tune_threshs of the attention network without its last assignment
mlp_tune_threshs_plain(p, t) == [i \in Cols |-> TunedColumnMlp(p, t, i)]

\* mlp_classifier_attention.tune_threshs: the same search, then
\* res[res == 0] = 0.5
mlp_tune_threshs(p, t) ==
    LET res == [i \in Cols |-> TunedColumnMlp(p, t, i)]
    IN [i \in Cols |-> IF res[i] = 0 THEN Fine(DefaultMlpThresh) ELSE res[i]]
(* ---------------------- inputs and initial states ---------------------- *)
Matrices(n, S) == [1..n -> [Cols -> S]]
NoResult == << >>

\* main() before parse_args; nothing of it has run
MainIdle ==
    /\ argv = << >> /\ args = << >> /\ train_params = << >>
    /\ train_used = << >> /\ eval_split = None /\ predicted = None
    /\ tuned = None /\ scored = None /\ exception = None

NoCall == /\ call = << >> /\ out = NoResult
NoTuning ==
    /\ lr_threshs = NoResult /\ lr_pred = NoResult /\ db_threshs = NoResult
    /\ db_pred = NoResult /\ mlp_threshs = NoResult

\* a score matrix and a truth matrix of one evaluated split
\* The tuning procedures loop over the labels and read one label's column
\* at a time, so the inputs here have a one-label vocabulary.
Init ==
    /\ classes_ = <<"a">>
    /\ probas \in Matrices(NumRows, Scores)
    /\ truth \in Matrices(NumRows, {0, 1})
    /\ pc = "start"
    /\ NoTuning /\ NoCall /\ MainIdle

(* ------------- the three tuning procedures on the same input ----------- *)
\* baseline: y_preds_lr, label_threshs = tune_clf_thresholds(...)
TuneClfThresholds ==
    /\ pc = "start"
    /\ LET r == tune_clf_thresholds(probas, LabelLists(truth))
       IN /\ lr_threshs' = r.label_threshs
          /\ lr_pred' = r.y_pred
    /\ pc' = "lr_done"
    /\ UNCHANGED <<classes_, probas, truth, db_threshs, db_pred, mlp_threshs, callVars, mainVars>>

\* transformer: tune_threshs, apply_threshs and multihot_to_label_lists of main()
TransformerTune ==
    /\ pc = "lr_done"
    /\ LET threshs == tune_threshs(probas, truth)
           predicted_mat == apply_threshs(probas, threshs)
       IN /\ db_threshs' = threshs
          /\ db_pred' = multihot_to_label_lists(predicted_mat, label_map0)
    /\ pc' = "db_done"
    /\ UNCHANGED <<classes_, probas, truth, lr_threshs, lr_pred, mlp_threshs, callVars, mainVars>>

\* attention network: tune_threshs(probas, truth)
MlpTune ==
    /\ pc = "db_done"
    /\ mlp_threshs' = mlp_tune_threshs(probas, truth)
    /\ pc' = "done"
    /\ UNCHANGED <<classes_, probas, truth, lr_threshs, lr_pred, db_threshs, db_pred, callVars, mainVars>>

Next == TuneClfThresholds \/ TransformerTune \/ MlpTune

Spec == Init /\ [][Next]_vars

(* --------------- single calls of the label-assignment functions -------- *)
ThreshArgs == Scores \cup {DefaultThresh}
FineThreshs == {Fine(s) : s \in Scores} \cup {-1}

InitCall ==
    /\ classes_ = <<"a", "b">>
    /\ probas \in Matrices(NumCallRows, Scores)
    /\ truth = [r \in 1..NumCallRows |-> [i \in Cols |-> 0]]
    /\ pc = "start"
    /\ NoTuning /\ NoCall /\ MainIdle

\* stringify_labels(probas, mlb[, thresh][, label_threshs])
StringifyLabels ==
    /\ pc = "start"
    /\ \E given \in BOOLEAN, t \in Scores,
          lt \in {NoneArg, DictArg(<< >>)} \cup {DictArg(d) : d \in [Labels -> ThreshArgs]} :
          LET thresh == IF given THEN t ELSE DefaultThresh
          IN /\ call' = [thresh_given |-> given, thresh |-> thresh,
                         label_threshs |-> lt,
                         threshs |-> << >>, label_map |-> << >>]
             /\ out' = stringify_labels(probas, thresh, lt)
    /\ pc' = "stringified"
    /\ UNCHANGED <<classes_, probas, truth, tuneVars, mainVars>>

\* multihot_to_label_lists(apply_threshs(probas, threshs), label_map)
DecodeLabels ==
    /\ pc = "start"
    /\ \E threshs \in [Cols -> FineThreshs], label_map \in LabelMaps :
          /\ call' = [thresh_given |-> FALSE, thresh |-> DefaultThresh,
                      label_threshs |-> NoneArg,
                      threshs |-> threshs, label_map |-> label_map]
          /\ out' = multihot_to_label_lists(apply_threshs(probas, threshs), label_map)
    /\ pc' = "decoded"
    /\ UNCHANGED <<classes_, probas, truth, tuneVars, mainVars>>

NextCall == StringifyLabels \/ DecodeLabels

SpecCall == InitCall /\ [][NextCall]_vars
(* -------------------- main() of the transformer script ----------------- *)
\* Python numbers of the options: an int n is <<n \div 65536, n % 65536>>,
\* a float m * 10^e is <<m, e>>; zero is <<0, 0>> in both.
IntOptions == {"seed", "batch_size", "epochs", "warmup_steps"}
FloatOptions == {"weight_decay", "learning_rate", "adam_epsilon", "max_grad_norm"}
NumericOptions == IntOptions \cup FloatOptions

\* build_arg_parser: the default= of each numeric option
ParserDefault ==
    [seed |-> <<57005, 48879>>, batch_size |-> <<0, 8>>, epochs |-> <<0, 1>>,
     weight_decay |-> <<0, 0>>, learning_rate |-> <<5, -5>>,
     adam_epsilon |-> <<1, -8>>, warmup_steps |-> <<0, 0>>,
     max_grad_norm |-> <<1, 0>>]

\* main(): the right operands of `or` in train_params
OrDefault ==
    [seed |-> <<57005, 48879>>, batch_size |-> <<0, 8>>, epochs |-> <<0, 1>>,
     weight_decay |-> <<0, 0>>, learning_rate |-> <<5, -5>>,
     adam_epsilon |-> <<1, -8>>, warmup_steps |-> <<0, 0>>,
     max_grad_norm |-> <<1, 0>>]

\* argparse type=int, type=float and type=bool applied to a token
PyInt(tok) == CASE tok = "0" -> <<0, 0>> [] tok = "3" -> <<0, 3>>
PyFloat(tok) == CASE tok = "0.0" -> <<0, 0>> [] tok = "0.5" -> <<5, -1>>
PyBool(tok) == tok # ""

Convert(o, tok) == IF o \in IntOptions THEN PyInt(tok) ELSE PyFloat(tok)

\* Python's `a or b`: a unless a is falsy, and a number is falsy when zero
Truthy(v) == v # <<0, 0>>
PyOr(a, b) == IF Truthy(a) THEN a ELSE b

ModeTokens == {"dev", "test", "train"}
BoolTokens == {"True", "False", "0", ""}

\* the command lines: --data always given, --mode and --use_class_weights
\* given or not, at most MaxGiven of the numeric options given, each with a
\* zero or a non-zero token
NumericChoices ==
    UNION {{[o \in NumericOptions |->
                IF o \notin G THEN Omitted
                ELSE IF o \in IntOptions
                     THEN (IF zero[o] THEN "0" ELSE "3")
                     ELSE (IF zero[o] THEN "0.0" ELSE "0.5")] :
             zero \in [G -> BOOLEAN]} :
           G \in {H \in SUBSET NumericOptions : Cardinality(H) <= MaxGiven}}

CommandLines ==
    {[o \in NumericOptions \cup {"mode", "use_class_weights"} |->
        IF o = "mode" THEN m
        ELSE IF o = "use_class_weights" THEN u ELSE n[o]] :
     n \in NumericChoices,
     m \in ModeTokens \cup {Omitted},
     u \in BoolTokens \cup {Omitted}}

InitMain ==
    /\ classes_ = << >> /\ probas = << >> /\ truth = << >>
    /\ NoTuning /\ NoCall
    /\ argv \in CommandLines
    /\ args = << >> /\ train_params = << >> /\ train_used = << >>
    /\ eval_split = None /\ predicted = None /\ tuned = None /\ scored = None
    /\ exception = None
    /\ pc = "main"

inputVars == <<classes_, probas, truth>>

\* parser.parse_args(): a required option that is missing ends the program
ParseArgs ==
    /\ pc = "main"
    /\ IF argv["mode"] = Omitted
       THEN /\ exception' = "SystemExit"
            /\ pc' = "exit"
            /\ args' = args
       ELSE /\ args' = [o \in DOMAIN argv |->
                          IF o = "mode" THEN argv[o]
                          ELSE IF o = "use_class_weights"
                               THEN (IF argv[o] = Omitted THEN TRUE ELSE PyBool(argv[o]))
                               ELSE (IF argv[o] = Omitted THEN ParserDefault[o]
                                     ELSE Convert(o, argv[o]))]
            /\ pc' = "parsed"
            /\ exception' = exception
    /\ UNCHANGED <<inputVars, tuneVars, callVars, argv, train_params, train_used,
                   eval_split, predicted, tuned, scored>>

\* train_params = {'seed': args.seed or 0xDEADBEEF, ...}
BuildTrainParams ==
    /\ pc = "parsed"
    /\ train_params' = [o \in NumericOptions |-> PyOr(args[o], OrDefault[o])]
    /\ pc' = "params"
    /\ UNCHANGED <<inputVars, tuneVars, callVars, argv, args, train_used,
                   eval_split, predicted, tuned, scored, exception>>

\* train(train_dataset, model, train_params, class_weights): the values it
\* reads from train_params, the class weights it is given and the pos_weight
\* of the loss built in forward()
Train ==
    /\ pc = "params"
    /\ LET class_weights == IF args["use_class_weights"]
                            THEN "don_data.class_weights" ELSE None
       IN train_used' = [params |-> [o \in NumericOptions |-> train_params[o]],
                         class_weights |-> class_weights,
                         pos_weight |-> IF class_weights # None
                                        THEN "tensor(don_data.class_weights)"
                                        ELSE None]
    /\ pc' = "trained"
    /\ UNCHANGED <<inputVars, tuneVars, callVars, argv, args, train_params,
                   eval_split, predicted, tuned, scored, exception>>

\* SelectEvalData whose else branch falls back to the test split
SelectEvalDataNoRaise ==
    /\ pc = "trained"
    /\ eval_split' = IF args["mode"] = "dev" THEN "dev" ELSE "test"
    /\ pc' = "selected"
    /\ UNCHANGED <<inputVars, tuneVars, callVars, argv, args, train_params,
                   train_used, predicted, tuned, scored, exception>>

\* if args.mode == 'dev': ... elif args.mode == 'test': ... else: raise
SelectEvalData ==
    /\ pc = "trained"
    /\ IF args["mode"] = "dev"
       THEN eval_split' = "dev" /\ pc' = "selected" /\ exception' = exception
       ELSE IF args["mode"] = "test"
            THEN eval_split' = "test" /\ pc' = "selected" /\ exception' = exception
            ELSE eval_split' = eval_split /\ pc' = "raised" /\ exception' = "ValueError"
    /\ UNCHANGED <<inputVars, tuneVars, callVars, argv, args, train_params,
                   train_used, predicted, tuned, scored>>

\* prediction_data = evaluate(eval_dataset=eval_data, model=model)
Evaluate ==
    /\ pc = "selected"
    /\ predicted' = eval_split
    /\ pc' = "predicted"
    /\ UNCHANGED <<inputVars, tuneVars, callVars, argv, args, train_params,
                   train_used, eval_split, tuned, scored, exception>>

\* threshs = tune_threshs(...); predicted_mat = apply_threshs(...), both on
\* prediction_data
TuneAndApply ==
    /\ pc = "predicted"
    /\ tuned' = predicted
    /\ pc' = "tuned"
    /\ UNCHANGED <<inputVars, tuneVars, callVars, argv, args, train_params,
                   train_used, eval_split, predicted, scored, exception>>

\* res = evaluate_multilabels(truth and predictions of prediction_data)
Score ==
    /\ pc = "tuned"
    /\ scored' = tuned
    /\ pc' = "done"
    /\ UNCHANGED <<inputVars, tuneVars, callVars, argv, args, train_params,
                   train_used, eval_split, predicted, tuned, exception>>

NextMain ==
    \/ ParseArgs \/ BuildTrainParams \/ Train \/ SelectEvalData
    \/ Evaluate \/ TuneAndApply \/ Score

SpecMain == InitMain /\ [][NextMain]_vars

(* ============================ properties =============================== *)
BaselineGrid == 1..9

\* F1 of label l when threshold t (tenths) is applied to every label
UniformF1(l, t) ==
    evaluate_multilabels(LabelLists(truth), stringify_labels(probas, t, NoneArg))[l]

ColMin(i) == Min({probas[r][i] : r \in DOMAIN probas})
ColMax(i) == Max({probas[r][i] : r \in DOMAIN probas})
GridPoint(i, k) == 99 * ColMin(i) + k * (ColMax(i) - ColMin(i))
GridPoints(i) == {GridPoint(i, k) : k \in 0..99}

\* F1 of column i when the predictions are (score > t), t in fine units
StrictF1(i, t) ==
    F1Of(Cardinality({r \in DOMAIN probas : truth[r][i] = 1 /\ 99 * probas[r][i] > t}),
         Cardinality({r \in DOMAIN probas : truth[r][i] = 0 /\ 99 * probas[r][i] > t}),
         Cardinality({r \in DOMAIN probas : truth[r][i] = 1 /\ ~(99 * probas[r][i] > t)}))

IsBestGridPoint(i, t) ==
    /\ t \in GridPoints(i)
    /\ \A g \in GridPoints(i) : FGe(StrictF1(i, t), StrictF1(i, g))

BaselineTuned == pc \in {"lr_done", "db_done", "done"}
TransformerTuned == pc \in {"db_done", "done"}

\* C1: the threshold tune_clf_thresholds returns for a label is one of
\* 0.1, 0.2, ..., 0.9, and the label's F1 with that threshold applied to all
\* labels is at least the label's F1 with any other threshold of that grid.
C1_BaselineThreshIsBest ==
    BaselineTuned =>
        \A l \in Labels :
            /\ lr_threshs[l] \in BaselineGrid
            /\ \A t \in BaselineGrid : FGe(UniformF1(l, lr_threshs[l]), UniformF1(l, t))

\* a label whose best threshold is not the first of the grid
C1_Witness ==
    /\ pc = "lr_done"
    /\ \E l \in Labels :
          /\ lr_threshs[l] > 1
          /\ FGt(UniformF1(l, lr_threshs[l]), UniformF1(l, 1))

\* C2: every threshold the transformer script's tune_threshs returns is one
\* of the 100 evenly spaced points between its column's minimum and maximum
\* score, and no point of that grid gives the column a greater F1.
C2_TransformerThreshIsBest ==
    TransformerTuned => \A i \in Cols : IsBestGridPoint(i, db_threshs[i])

\* a column whose best grid point is not the first one
C2_Witness ==
    /\ pc = "db_done"
    /\ \E i \in Cols :
          /\ db_threshs[i] > GridPoint(i, 0)
          /\ FGt(StrictF1(i, db_threshs[i]), StrictF1(i, GridPoint(i, 0)))

LabelSet(seq) == {seq[n] : n \in DOMAIN seq}

\* C3 as stated: on the same scores and truth the three scripts select the
\* same threshold for every label and assign the same labels to every sample.
C3_SameProcedure ==
    pc = "done" =>
        /\ \A j \in Cols :
              /\ 99 * lr_threshs[classes_[j]] = db_threshs[j]
              /\ db_threshs[j] = mlp_threshs[j]
        /\ \A r \in DOMAIN probas : lr_pred[r] = LabelSet(db_pred[r])

\* C3 amended: the tune_threshs of the transformer script and of the
\* attention-network script select the same threshold for every label,
\* except that the attention-network script returns 0.5 where the selected
\* grid point is exactly 0.
C3_TuneThreshsAgree ==
    pc = "done" =>
        \A j \in Cols :
            mlp_threshs[j] = IF db_threshs[j] = 0 THEN 99 * 5 ELSE db_threshs[j]

\* all three have run, the two tune_threshs agree on a non-zero threshold
\* and the baseline selected another one
C3_Witness ==
    /\ pc = "done"
    /\ \E j \in Cols :
          /\ db_threshs[j] # 0
          /\ mlp_threshs[j] = db_threshs[j]
          /\ 99 * lr_threshs[classes_[j]] # db_threshs[j]

\* C9 as stated: every threshold the attention-network script's tune_threshs
\* returns is a point of the column's 100-point grid with the greatest F1.
C9_MlpThreshIsBest ==
    pc = "done" => \A i \in Cols : IsBestGridPoint(i, mlp_threshs[i])

\* the threshold stringify_labels is to use for label l
ThreshOf(l) ==
    IF call.label_threshs[1] = "dict" /\ l \in DOMAIN call.label_threshs[2]
    THEN call.label_threshs[2][l]
    ELSE IF call.thresh_given THEN call.thresh ELSE 5

\* C4: stringify_labels returns one entry per row; a label is in a row's
\* entry exactly when the row's score for it is at least the label's
\* threshold (label_threshs[l] when given, else thresh, 0.5 by default);
\* a row with every score below its threshold has an empty entry.
C4_StringifyLabels ==
    pc = "stringified" =>
        /\ DOMAIN out = DOMAIN probas
        /\ \A r \in DOMAIN probas :
              /\ out[r] \subseteq Labels
              /\ \A j \in Cols :
                    classes_[j] \in out[r] <=> probas[r][j] >= ThreshOf(classes_[j])
              /\ (\A j \in Cols : probas[r][j] < ThreshOf(classes_[j])) => out[r] = {}

\* per-label thresholds were given; one row has a label whose score equals
\* its threshold, another row is below every threshold
C4_Witness ==
    /\ pc = "stringified"
    /\ call.label_threshs[1] = "dict"
    /\ DOMAIN call.label_threshs[2] = Labels
    /\ \E r \in DOMAIN probas, j \in Cols :
          probas[r][j] = ThreshOf(classes_[j]) /\ classes_[j] \in out[r]
    /\ \E r \in DOMAIN probas : out[r] = {}

\* C5: multihot_to_label_lists(apply_threshs(probas, threshs), label_map)
\* returns one list per row; label l is in row r's list exactly when
\* probas[r, label_map[l]] > threshs[label_map[l]]; the labels of a list are
\* in ascending column order, without duplicates.
C5_DecodeLabels ==
    pc = "decoded" =>
        /\ DOMAIN out = DOMAIN probas
        /\ \A r \in DOMAIN probas :
              /\ \A l \in Labels :
                    (\E n \in DOMAIN out[r] : out[r][n] = l)
                        <=> 99 * probas[r][call.label_map[l]] > call.threshs[call.label_map[l]]
              /\ \A m, n \in DOMAIN out[r] :
                    m < n => call.label_map[out[r][m]] < call.label_map[out[r][n]]

\* a label map that reverses the vocabulary, a row with both labels, and a
\* score equal to its threshold whose label is left out
C5_Witness ==
    /\ pc = "decoded"
    /\ call.label_map["a"] = 2
    /\ \E r \in DOMAIN probas : Len(out[r]) = 2
    /\ \E r \in DOMAIN probas, l \in Labels :
          /\ 99 * probas[r][call.label_map[l]] = call.threshs[call.label_map[l]]
          /\ \A n \in DOMAIN out[r] : out[r][n] # l

AfterParams == pc \in {"params", "trained", "selected", "raised", "predicted", "tuned", "done"}
AfterTrain == pc \in {"trained", "selected", "raised", "predicted", "tuned", "done"}

\* C6: with --mode dev the dev split, with --mode test the test split is
\* the one predicted, threshold-tuned and scored; with any other mode main
\* ends in ValueError and nothing is predicted, tuned or scored.
C6_ModeSelectsSplit ==
    /\ predicted \in {None, argv["mode"]}
    /\ tuned \in {None, argv["mode"]}
    /\ scored \in {None, argv["mode"]}
    /\ pc = "done" => /\ argv["mode"] \in {"dev", "test"}
                      /\ predicted = argv["mode"]
                      /\ tuned = argv["mode"]
                      /\ scored = argv["mode"]
    /\ (argv["mode"] \notin {"dev", "test", Omitted} /\ AfterTrain) =>
            /\ pc = "trained" \/ (pc = "raised" /\ exception = "ValueError")
            /\ predicted = None /\ tuned = None /\ scored = None
    /\ pc = "raised" => argv["mode"] \notin {"dev", "test"}

\* main ended in ValueError on a mode that is neither dev nor test
C6_Witness ==
    /\ pc = "raised"
    /\ exception = "ValueError"
    /\ argv["mode"] = "train"
    /\ predicted = None

\* the value the command line asks for: the converted token, or the
\* documented default when the option is omitted
Documented ==
    [seed |-> <<57005, 48879>>, batch_size |-> <<0, 8>>, epochs |-> <<0, 1>>,
     weight_decay |-> <<0, 0>>, learning_rate |-> <<5, -5>>,
     adam_epsilon |-> <<1, -8>>, warmup_steps |-> <<0, 0>>,
     max_grad_norm |-> <<1, 0>>]
Requested(o) == IF argv[o] = Omitted THEN Documented[o] ELSE Convert(o, argv[o])

\* C7 as stated: each of seed, batch_size, epochs, weight_decay,
\* learning_rate, adam_epsilon, warmup_steps and max_grad_norm reaches
\* train_params and train() with the value given on the command line, or
\* with its documented default when omitted.
C7_TrainParamsAsGiven ==
    /\ AfterParams => \A o \in NumericOptions : train_params[o] = Requested(o)
    /\ AfterTrain => \A o \in NumericOptions : train_used.params[o] = Requested(o)

FalseTokens == {"False", "0", ""}

\* C8 as stated: train() receives don_data.class_weights when
\* --use_class_weights is true or omitted, and None, with pos_weight None,
\* when the user passes a false value for it.
C8_ClassWeightsOption ==
    AfterTrain =>
        /\ argv["use_class_weights"] \in {Omitted, "True"} =>
                train_used.class_weights = "don_data.class_weights"
        /\ argv["use_class_weights"] \in FalseTokens =>
                /\ train_used.class_weights = None
                /\ train_used.pos_weight = None

====
